---- MODULE Spec2Model ----
(***************************************************************************)
(* State-machine model of BarcodeService (src/src/services/barcodeService.js): *)
(* the camera stream lifecycle, the asynchronous startScanning calls, the  *)
(* periodic scan tick with its three decode approaches, result validation  *)
(* and duplicate suppression, and the EAN-13 check-digit function.         *)
(*                                                                         *)
(* Encoding of JavaScript values:                                          *)
(*   - object references (stream, interval handle, callback, scanner) are  *)
(*     the id of the startScanning call that created them; 0 is null;      *)
(*   - a string is the sequence of its characters, a character being a     *)
(*     number: 0..9 the ASCII digits, 10 the letter 'A', 11 a non-ASCII    *)
(*     digit; lastResult = null is the empty sequence (processResult only  *)
(*     compares lastResult with non-empty texts).                          *)
(***************************************************************************)
EXTENDS Integers, Sequences, FiniteSets, TLC

\* ---------------------------------------------------------------- bounds
MaxCalls == 2      \* startScanning invocations in one run
NumTracks == 1     \* tracks of one acquired MediaStream
MaxEdits == 1      \* edits applied to a seed string before it is validated
MaxPixels == 2     \* pixels of a raster handed to enhanceImageForBarcode
MaxUnits == 3      \* units on the invoice of the ScanInvoice page

\* ------------------------------------------------------ program constants
HAVE_CURRENT_DATA == 2
HAVE_ENOUGH_DATA == 4
EanLength == 13

Calls == 1..MaxCalls
Tracks == 1..NumTracks

VARIABLES
    \* fields of BarcodeService
    isInitialized, scanner, stream, scanInterval, lastResult, scanCallback,
    processingFrame,
    \* platform
    zxing,          \* window.ZXing is defined
    pc,             \* position of each startScanning call
    gumRequests,    \* getUserMedia requests issued by each call
    streams,        \* streams getUserMedia has handed out
    trackStops,     \* stop() invocations per track of each stream
    timers,         \* interval handles created and not cleared
    thrown,         \* per call: the name of the error caught by startCamera's
                    \* catch block, "none" while the call has not rejected
    video,          \* the video element: srcObject, readyState, onloadedmetadata
    \* the scanBarcode invocation in execution (its locals die when it returns)
    tickPos,        \* 0: none; i in 1..3: approach i is next; 4: in finally
    attempts,       \* approaches tried so far, in order
    tickResult,     \* result handed to processResult
    tickPrev,       \* lastResult when the invocation began
    tickPrevCb,     \* lastCb when the invocation began
    tickCb,         \* callback invocations made
    activeTicks,    \* scanBarcode bodies in execution
    caught,         \* what the catch block of this invocation caught: "none",
                    \* "frame" (capture or preprocessing) or "callback"
    \* history
    lastCb,         \* text of the last callback invocation since the last
                    \* startScanning or stopScanning
    prevCaught,     \* what the last scanBarcode that ended in its catch block
                    \* caught, kept until a later one attempts a decode or
                    \* startScanning or stopScanning acts
    prevSession,    \* the text last delivered in the session the latest
                    \* startScanning replaced (empty when it was stopped or
                    \* had delivered nothing), kept until a scanBarcode that
                    \* invoked the callback returns or stopScanning acts
    overlapped,     \* a startScanning was invoked while another was in flight
    stopRaced,      \* stopScanning ran while a call was in flight, no start since
    \* validateEan13 harness
    eanBase,        \* the seed string
    eanIn,          \* the value passed to validateEan13
    eanEdits,       \* edits made to the seed
    eanOut,         \* what validateEan13 returned for eanIn, or "unset"
    \* performScan harness
    psIn,           \* this.scanner, window.ZXing and the outcomes of the
                    \* statements of the performScan call made last (lum
                    \* is "unset" while none was made)
    psOut,          \* what that call did
    \* enhanceImageForBarcode harness
    imgIn,          \* the raster passed to the call made last (width 0
                    \* while none was made)
    imgOut,         \* the source as the call left it and the raster returned
    \* the ScanInvoice page
    invoiceItems,   \* the invoiceItems state
    isCameraOpen,   \* the isCameraOpen state
    closureItems,   \* invoiceItems as the handleBarcodeScan that was passed
                    \* to startScanning sees it: the value of the render
                    \* whose effect made the call
    lastScanned     \* lastResult of the scanning session of the page

ctl == <<isInitialized, scanner, stream, scanInterval, lastResult, scanCallback,
         processingFrame>>
plat == <<zxing, pc, gumRequests, streams, trackStops, timers, video, thrown>>
tickv == <<tickPos, attempts, tickResult, tickPrev, tickPrevCb, tickCb,
           activeTicks, caught>>
hist == <<lastCb, prevCaught, prevSession, overlapped, stopRaced>>
eanv == <<eanBase, eanIn, eanEdits, eanOut>>
invv == <<invoiceItems, isCameraOpen, closureItems, lastScanned>>
fnv == <<psIn, psOut, imgIn, imgOut, invv>>
vars == <<ctl, plat, tickv, hist, eanv, fnv>>

\* ------------------------------------------------------------ JS values
Str(s) == [type |-> "string", chars |-> s]
Num(s) == [type |-> "number", chars |-> s]

IsAsciiDigit(ch) == ch \in 0..9

\* /^\d+$/.test(s)
AllDigits(s) == Len(s) > 0 /\ \A i \in 1..Len(s) : IsAsciiDigit(s[i])

\* the for loop of validateEan13: i runs over 0..11, ean[i] is s[i + 1]
RECURSIVE SumLoop(_, _, _)
SumLoop(s, i, sum) ==
    IF i < 12
    THEN SumLoop(s, i + 1, sum + s[i + 1] * (IF i % 2 = 0 THEN 1 ELSE 3))
    ELSE sum

\* mutant: the weights 1 and 3 are swapped
RECURSIVE SumLoopSwapped(_, _, _)
SumLoopSwapped(s, i, sum) ==
    IF i < 12
    THEN SumLoopSwapped(s, i + 1, sum + s[i + 1] * (IF i % 2 = 0 THEN 3 ELSE 1))
    ELSE sum

validateEan13_swappedWeights(ean) ==
    IF ean.type # "string" \/ Len(ean.chars) # EanLength \/ ~AllDigits(ean.chars)
    THEN FALSE
    ELSE (10 - (SumLoopSwapped(ean.chars, 0, 0) % 10)) % 10 = ean.chars[13]

\* mutant: the odd indices are weighted 5, not 3
RECURSIVE SumLoopWeight5(_, _, _)
SumLoopWeight5(s, i, sum) ==
    IF i < 12
    THEN SumLoopWeight5(s, i + 1, sum + s[i + 1] * (IF i % 2 = 0 THEN 1 ELSE 5))
    ELSE sum

validateEan13_weight5(ean) ==
    IF ean.type # "string" \/ Len(ean.chars) # EanLength \/ ~AllDigits(ean.chars)
    THEN FALSE
    ELSE (10 - (SumLoopWeight5(ean.chars, 0, 0) % 10)) % 10 = ean.chars[13]

validateEan13(ean) ==
    IF ean.type # "string" \/ Len(ean.chars) # EanLength \/ ~AllDigits(ean.chars)
    THEN FALSE
    ELSE LET sum == SumLoop(ean.chars, 0, 0)
             checkDigit == (10 - (sum % 10)) % 10
             providedCheckDigit == ean.chars[13]
         IN checkDigit = providedCheckDigit

\* ------------------------------------------------------- decode results
EanX == <<4,0,0,6,3,8,1,3,3,3,9,3,1>>
EanBad == <<4,0,0,6,3,8,1,3,3,3,9,3,0>>
EanY == <<5,9,0,1,2,3,4,1,2,3,4,5,7>>
Short == <<1,2,3,4,5>>

NoResult == [text |-> <<>>, format |-> "null"]

DecodeResults ==
    { [text |-> EanX, format |-> "EAN_13"],
      [text |-> EanBad, format |-> "EAN_13"],
      [text |-> EanBad, format |-> "CODE_128"],
      [text |-> Short, format |-> "CODE_128"],
      [text |-> <<>>, format |-> "CODE_128"] }

NotFoundException == [text |-> <<>>, format |-> "NotFoundException"]
OtherException == [text |-> <<>>, format |-> "Error"]

\* what one scanner.decode call can do: return a result or throw
DecodeOutcomes == DecodeResults \cup {NotFoundException, OtherException}

\* the inputs of one performScan call: the outcome of building the luminance
\* source and of decoding with each binarizer (the second decode is only
\* reached after a NotFoundException of the first)
ScanInputs ==
    {[lum |-> "throw", hybrid |-> NotFoundException, global |-> NotFoundException]}
    \cup {[lum |-> "ok", hybrid |-> h, global |-> NotFoundException] :
             h \in DecodeOutcomes \ {NotFoundException}}
    \cup {[lum |-> "ok", hybrid |-> NotFoundException, global |-> g] :
             g \in DecodeOutcomes}

\* the inputs drawn for approach i: every outcome for the raw frame; for the
\* enhanced frame and the strip the outcomes in which a decode returns
\* nothing, throws, or returns the valid EAN-13
LaterInputs ==
    {in \in ScanInputs :
        \A r \in {in.hybrid, in.global} :
            r \in DecodeResults => r = [text |-> EanX, format |-> "EAN_13"]}

ApproachInputs(i) == IF i = 1 THEN ScanInputs ELSE LaterInputs

\* mutant: the enhanced approach is listed before the standard one
scanApproaches_swapped == <<"enhanced", "raw", "strip">>

\* the approaches of scanBarcode, in array order
scanApproaches == <<"raw", "enhanced", "strip">>

\* mutant: the second binarizer is tried after any exception of the first
PerformScan_retryOnAnyError(sc, zx, lum, hybrid, global) ==
    IF ~zx \/ lum = "throw" \/ sc = 0
    THEN [result |-> NoResult, decodes |-> 0, binarizers |-> <<>>,
          threw |-> FALSE]
    ELSE IF hybrid \in DecodeResults
    THEN [result |-> hybrid, decodes |-> 1, binarizers |-> <<"hybrid">>,
          threw |-> FALSE]
    ELSE [result |-> IF global \in DecodeResults THEN global ELSE NoResult,
          decodes |-> 2, binarizers |-> <<"hybrid", "global">>,
          threw |-> FALSE]

\* performScan(canvas): lum is the outcome of building the luminance source,
\* hybrid and global the outcomes of decoding with each binarizer.
\* Returns the result (NoResult for null) and the number of decode calls made.
PerformScan(sc, zx, lum, hybrid, global) ==
    IF ~zx \/ lum = "throw"
    THEN \* line 411 or 412 throws: the outer catch returns null
         [result |-> NoResult, decodes |-> 0, binarizers |-> <<>>,
          threw |-> FALSE]
    ELSE IF sc = 0
    THEN \* this.scanner is null: line 416 throws a TypeError, no
         \* NotFoundException, before any decode
         [result |-> NoResult, decodes |-> 0, binarizers |-> <<>>,
          threw |-> FALSE]
    ELSE IF hybrid \in DecodeResults
    THEN [result |-> hybrid, decodes |-> 1, binarizers |-> <<"hybrid">>,
          threw |-> FALSE]
    ELSE IF hybrid = NotFoundException
    THEN IF global \in DecodeResults
         THEN [result |-> global, decodes |-> 2,
               binarizers |-> <<"hybrid", "global">>, threw |-> FALSE]
         ELSE [result |-> NoResult, decodes |-> 2,
               binarizers |-> <<"hybrid", "global">>, threw |-> FALSE]
    ELSE [result |-> NoResult, decodes |-> 1, binarizers |-> <<"hybrid">>,
          threw |-> FALSE]

\* mutant: the comparison with lastResult is missing
ProcessResult_noDedup(result, last, cb) ==
    IF result = NoResult \/ result.text = <<>>
    THEN [lastResult |-> last, calls |-> <<>>]
    ELSE IF (result.format = "EAN_13" \/ Len(result.text) = 13)
            /\ ~validateEan13(Str(result.text))
    THEN [lastResult |-> last, calls |-> <<>>]
    ELSE [lastResult |-> result.text,
          calls |-> IF cb # 0 THEN <<result.text>> ELSE <<>>]

\* mutant: lastResult is assigned before it is compared
ProcessResult_assignFirst(result, last, cb) ==
    IF result = NoResult \/ result.text = <<>>
    THEN [lastResult |-> last, calls |-> <<>>]
    ELSE IF (result.format = "EAN_13" \/ Len(result.text) = 13)
            /\ ~validateEan13(Str(result.text))
    THEN [lastResult |-> last, calls |-> <<>>]
    ELSE [lastResult |-> result.text, calls |-> <<>>]

\* mutant: the check digit is validated only when format and length both match
ProcessResult_formatAndLength(result, last, cb) ==
    IF result = NoResult \/ result.text = <<>>
    THEN [lastResult |-> last, calls |-> <<>>]
    ELSE IF (result.format = "EAN_13" /\ Len(result.text) = 13)
            /\ ~validateEan13(Str(result.text))
    THEN [lastResult |-> last, calls |-> <<>>]
    ELSE IF result.text # last
    THEN [lastResult |-> result.text,
          calls |-> IF cb # 0 THEN <<result.text>> ELSE <<>>]
    ELSE [lastResult |-> last, calls |-> <<>>]

\* the texts of decode results: those scanner.decode returns in the state
\* machine, and a second valid EAN-13
DecodedTexts == {r.text : r \in DecodeResults} \cup {EanY}

\* this.validateEan13(text) for each of them
Ean13Valid == [t \in DecodedTexts |-> validateEan13(Str(t))]

\* mutant: every result is put through validateEan13
ProcessResult_validateAll(result, last, cb) ==
    IF result = NoResult \/ result.text = <<>>
    THEN [lastResult |-> last, calls |-> <<>>]
    ELSE IF ~Ean13Valid[result.text]
    THEN [lastResult |-> last, calls |-> <<>>]
    ELSE IF result.text # last
    THEN [lastResult |-> result.text,
          calls |-> IF cb # 0 THEN <<result.text>> ELSE <<>>]
    ELSE [lastResult |-> last, calls |-> <<>>]

\* mutant: a result that fails the check digit also clears lastResult
ProcessResult_clearOnReject(result, last, cb) ==
    IF result = NoResult \/ result.text = <<>>
    THEN [lastResult |-> last, calls |-> <<>>]
    ELSE IF (result.format = "EAN_13" \/ Len(result.text) = 13)
            /\ ~Ean13Valid[result.text]
    THEN [lastResult |-> <<>>, calls |-> <<>>]
    ELSE IF result.text # last
    THEN [lastResult |-> result.text,
          calls |-> IF cb # 0 THEN <<result.text>> ELSE <<>>]
    ELSE [lastResult |-> last, calls |-> <<>>]

\* processResult(result) as a function of lastResult and scanCallback:
\* the new lastResult and the callback invocations it makes
ProcessResult(result, last, cb) ==
    IF result = NoResult \/ result.text = <<>>
    THEN [lastResult |-> last, calls |-> <<>>]
    ELSE IF (result.format = "EAN_13" \/ Len(result.text) = 13)
            /\ ~Ean13Valid[result.text]
    THEN [lastResult |-> last, calls |-> <<>>]
    ELSE IF result.text # last
    THEN [lastResult |-> result.text,
          calls |-> IF cb # 0 THEN <<result.text>> ELSE <<>>]
    ELSE [lastResult |-> last, calls |-> <<>>]

\* mutant: this.stream is not cleared after its tracks were stopped
StopCamera_keepStream(st, iv, stops, tm) ==
    [stream |-> st,
     scanInterval |-> 0,
     trackStops |-> IF st # 0
                    THEN [stops EXCEPT ![st] = [t \in Tracks |-> @[t] + 1]]
                    ELSE stops,
     timers |-> IF iv # 0 THEN tm \ {iv} ELSE tm]

\* stopCamera() on the given fields and platform resources
StopCamera(st, iv, stops, tm) ==
    [stream |-> 0,
     scanInterval |-> 0,
     trackStops |-> IF st # 0
                    THEN [stops EXCEPT ![st] = [t \in Tracks |-> @[t] + 1]]
                    ELSE stops,
     timers |-> IF iv # 0 THEN tm \ {iv} ELSE tm]

\* the names getUserMedia rejects with
GumErrors == {"NotAllowedError", "NotFoundError", "NotReadableError"}

\* what is thrown inside startCamera's try block: a rejection of getUserMedia,
\* or a TypeError of a statement that uses the stream or the video element
PlatformError(name) == [name |-> name, message |-> <<"message of", name>>]

NoError == "none"

\* mutant: the catch block tests for NotAllowedError only
CameraError_oneTest(error) ==
    IF error.name = "NotAllowedError"
    THEN <<"Camera access denied. Please grant camera permission.">>
    ELSE <<"Camera error: ">> \o error.message

\* the message of the Error startCamera's catch block throws for error
CameraError(error) ==
    IF error.name = "NotAllowedError"
    THEN <<"Camera access denied. Please grant camera permission.">>
    ELSE IF error.name = "NotFoundError"
    THEN <<"No camera found on this device.">>
    ELSE <<"Camera error: ">> \o error.message

\* ------------------------------------------- enhanceImageForBarcode
\* JavaScript numbers are IEEE-754 doubles. The doubles that arise here are
\* written [n, d], standing for n/12 + d * 2^-56 / 3: n/12 is the value the
\* arithmetic would give without rounding and d what rounding has added
Dbl(n, d) == [n |-> n, d |-> d]

Abs(x) == IF x < 0 THEN -x ELSE x

Sgn(x) == IF x < 0 THEN -1 ELSE 1

RECURSIVE Pow2(_)
Pow2(k) == IF k = 0 THEN 1 ELSE 2 * Pow2(k - 1)

\* floor(log2(a/12)) for an integer a in 1..12*256
RECURSIVE Log2Twelfths(_, _)
Log2Twelfths(a, e) ==
    IF 8 * a >= 12 * Pow2(e + 3) THEN e ELSE Log2Twelfths(a, e - 1)

\* the binary exponent of a double v with v.n # 0
Exponent(v) ==
    LET a == Abs(v.n)
        e == Log2Twelfths(a, 8)
    IN IF 8 * a = 12 * Pow2(e + 3) /\ Sgn(v.n) * v.d < 0 THEN e - 1 ELSE e

\* m/12 modulo the spacing 2^-p of the doubles, in units of 2^-56 / 3
TwelfthsModUlp(m, p) ==
    Pow2(56 - p) * ((m * (IF p % 2 = 0 THEN 1 ELSE 2)) % 3)

\* the double nearest to the real number v, ties to the even significand
RoundToDouble(v) ==
    IF v.n = 0
    THEN v
    ELSE LET sg == Sgn(v.n)
             a == Abs(v.n)
             dm == sg * v.d
             p == 52 - Exponent(v)
             G == 3 * Pow2(56 - p)
             r == (TwelfthsModUlp(a % 12, p) + dm) % G
             r2 == (TwelfthsModUlp(a % 12, p - 1) + dm) % (2 * G)
             up == 2 * r > G \/ (2 * r = G /\ r2 >= G)
         IN IF r = 0 THEN v
            ELSE IF up THEN Dbl(v.n, sg * (dm + G - r))
            ELSE Dbl(v.n, sg * (dm - r))

\* x / 3 for an integer x in 0..765
DivideBy3(x) == RoundToDouble(Dbl(4 * x, 0))

\* v + k for an integer k
PlusInt(v, k) == RoundToDouble(Dbl(v.n + 12 * k, v.d))

\* v * contrast, contrast being 1.5 (line 378)
TimesContrast(v) == RoundToDouble(Dbl((3 * v.n) \div 2, (3 * v.d) \div 2))

\* v > k for an integer k
GreaterThan(v, k) == v.n > 12 * k \/ (v.n = 12 * k /\ v.d > 0)

brightness == 0
Cutoff == 120

\* mutant: the comparison with the cutoff is not strict
thresholdValue_atLeast(r, g, b) ==
    LET avg == DivideBy3(r + g + b)
        newValue == PlusInt(PlusInt(TimesContrast(PlusInt(avg, -128)), 128),
                            brightness)
    IN IF GreaterThan(newValue, Cutoff) \/ newValue = Dbl(12 * Cutoff, 0)
       THEN 255 ELSE 0

\* lines 383-389: the value written to R, G and B of a pixel
thresholdValue(r, g, b) ==
    LET avg == DivideBy3(r + g + b)
        newValue == PlusInt(PlusInt(TimesContrast(PlusInt(avg, -128)), 128),
                            brightness)
    IN IF GreaterThan(newValue, Cutoff) THEN 255 ELSE 0

\* pixels of a frame drawn from the video (opaque): black, white, and
\* colours whose channels sum to 367, 368 and 369
Pixels ==
    { <<0, 0, 0, 255>>, <<255, 255, 255, 255>>,
      <<122, 122, 123, 255>>, <<122, 123, 123, 255>>, <<123, 123, 123, 255>>,
      <<255, 113, 0, 255>>, <<0, 114, 255, 255>> }

\* the loop body of lines 381-392 applied to each of these pixels
Thresholded == [px \in Pixels |-> thresholdValue(px[1], px[2], px[3])]

\* enhanceImageForBarcode(sourceCanvas): a raster is its width, its height
\* and its RGBA pixels in row order. drawImage copies the source to a new
\* canvas, getImageData copies that canvas, the loop rewrites the copy and
\* putImageData stores it in the new canvas, which is returned. Yields the
\* source as the call leaves it and the raster returned
enhanceImageForBarcode(sourceCanvas) ==
    [source |-> sourceCanvas,
     canvas |-> [width |-> sourceCanvas.width,
                 height |-> sourceCanvas.height,
                 data |-> [i \in 1..Len(sourceCanvas.data) |->
                              LET px == sourceCanvas.data[i]
                                  t == IF px \in Pixels
                                       THEN Thresholded[px]
                                       ELSE thresholdValue(px[1], px[2], px[3])
                              IN <<t, t, t, px[4]>>]]]

\* ----------------------------------------------------------------- state
\* a call ends "resolved", "rejected" (getUserMedia failed) or
\* "rejectedAfterOpen" (startCamera threw after it had stored the stream)
InFlightPcs == {"awaitLoad", "awaitInit", "awaitGUM", "awaitApply",
                "awaitReady", "awaitPlay"}
InFlight == {c \in Calls : pc[c] \in InFlightPcs}

\* streams with a track that was never stopped
LiveStreams == {s \in streams : \E t \in Tracks : trackStops[s][t] = 0}

\* a continuation queued as a microtask runs before any timer or platform event
NoMicrotask == \A c \in Calls : pc[c] # "awaitInit"
\* handlers run to completion: nothing else runs inside a tick body
TickIdle == tickPos = 0

\* the constructor (lines 6-14) and a platform on which nothing was requested
Constructed ==
    /\ isInitialized = FALSE
    /\ scanner = 0
    /\ stream = 0
    /\ scanInterval = 0
    /\ lastResult = <<>>
    /\ scanCallback = 0
    /\ processingFrame = FALSE
    /\ pc = [c \in Calls |-> "new"]
    /\ gumRequests = [c \in Calls |-> 0]
    /\ streams = {}
    /\ trackStops = [c \in Calls |-> [t \in Tracks |-> 0]]
    /\ timers = {}
    /\ thrown = [c \in Calls |-> NoError]
    /\ video = [srcObject |-> 0, readyState |-> 0, onloadedmetadata |-> 0]
    /\ tickPos = 0
    /\ attempts = <<>>
    /\ tickResult = NoResult
    /\ tickPrev = <<>>
    /\ tickPrevCb = <<>>
    /\ tickCb = 0
    /\ activeTicks = 0
    /\ caught = "none"
    /\ lastCb = <<>>
    /\ prevCaught = "none"
    /\ prevSession = <<>>
    /\ overlapped = FALSE
    /\ stopRaced = FALSE

\* the raster slot before any call: no canvas
NoRaster == [width |-> 0, height |-> 0, data |-> <<>>]

\* no harness has called anything
NoCalls ==
    /\ psIn = [scanner |-> 0, zxing |-> FALSE, lum |-> "unset",
               hybrid |-> NotFoundException, global |-> NotFoundException]
    /\ psOut = [result |-> NoResult, decodes |-> 0, binarizers |-> <<>>,
                threw |-> FALSE]
    /\ imgIn = NoRaster
    /\ imgOut = [source |-> NoRaster, canvas |-> NoRaster]
    /\ invoiceItems = <<>>
    /\ isCameraOpen = FALSE
    /\ closureItems = <<>>
    /\ lastScanned = <<>>

Init ==
    /\ Constructed
    /\ zxing \in BOOLEAN
    /\ eanBase = Str(<<>>)
    /\ eanIn = Str(<<>>)
    /\ eanEdits = 0
    /\ eanOut = "unset"
    /\ NoCalls

\* the message of the Error call c rejected with (lines 188-194, rethrown
\* unchanged at line 289)
RejectionMessage(c) == CameraError(PlatformError(thrown[c]))

\* --------------------------------------------------------- startScanning
\* mutant: startCamera does not stop the existing stream first
StartBody_noStopCamera(c) ==
    /\ scanCallback' = c
    /\ lastResult' = <<>>
    /\ UNCHANGED <<stream, scanInterval, trackStops, timers>>
    /\ gumRequests' = [gumRequests EXCEPT ![c] = @ + 1]
    /\ pc' = [pc EXCEPT ![c] = "awaitGUM"]
    /\ lastCb' = <<>>
    /\ prevCaught' = "none"
    /\ prevSession' = lastCb

\* mutant: line 229 is missing, lastResult survives the start
StartBody_keepLastResult(c) ==
    LET sc == StopCamera(stream, scanInterval, trackStops, timers)
    IN /\ scanCallback' = c
       /\ lastResult' = lastResult
       /\ stream' = sc.stream
       /\ scanInterval' = sc.scanInterval
       /\ trackStops' = sc.trackStops
       /\ timers' = sc.timers
       /\ gumRequests' = [gumRequests EXCEPT ![c] = @ + 1]
       /\ pc' = [pc EXCEPT ![c] = "awaitGUM"]
       /\ lastCb' = <<>>
       /\ prevCaught' = "none"
       /\ prevSession' = lastCb

\* lines 225-233 and startCamera up to the getUserMedia request (94-122)
StartBody(c) ==
    LET sc == StopCamera(stream, scanInterval, trackStops, timers)
    IN /\ scanCallback' = c
       /\ lastResult' = <<>>
       /\ stream' = sc.stream
       /\ scanInterval' = sc.scanInterval
       /\ trackStops' = sc.trackStops
       /\ timers' = sc.timers
       /\ gumRequests' = [gumRequests EXCEPT ![c] = @ + 1]
       /\ pc' = [pc EXCEPT ![c] = "awaitGUM"]
       /\ lastCb' = <<>>
       /\ prevCaught' = "none"
       /\ prevSession' = lastCb

\* startScanning(videoElement, callback, deviceId) is invoked
StartScanning(c) ==
    /\ TickIdle
    /\ pc[c] = "new"
    /\ \A d \in Calls : d < c => pc[d] # "new"
    /\ overlapped' = (overlapped \/ InFlight # {})
    /\ stopRaced' = FALSE
    /\ IF ~isInitialized
       THEN /\ IF zxing
               THEN isInitialized' = TRUE /\ pc' = [pc EXCEPT ![c] = "awaitInit"]
               ELSE isInitialized' = FALSE /\ pc' = [pc EXCEPT ![c] = "awaitLoad"]
            /\ UNCHANGED <<scanCallback, lastResult, stream, scanInterval,
                           trackStops, timers, gumRequests, lastCb, prevCaught,
                           prevSession>>
       ELSE /\ StartBody(c)
            /\ UNCHANGED isInitialized
    /\ UNCHANGED <<scanner, processingFrame, zxing, streams, video, thrown,
                   tickv, eanv, fnv>>

\* the await of initialize() resumes (initialize returned without suspending)
InitDone(c) ==
    /\ TickIdle
    /\ pc[c] = "awaitInit"
    /\ StartBody(c)
    /\ UNCHANGED <<isInitialized, scanner, processingFrame, zxing,
                   streams, video, thrown, tickv, overlapped, stopRaced, eanv, fnv>>

\* the script appended by loadZXingLibrary loads (ok) or fails; initialize
\* catches the failure and startScanning goes on
LoadSettles(c, ok) ==
    /\ TickIdle /\ NoMicrotask
    /\ pc[c] = "awaitLoad"
    /\ zxing' = (zxing \/ ok)
    /\ isInitialized' = (isInitialized \/ ok)
    /\ StartBody(c)
    /\ UNCHANGED <<scanner, processingFrame, streams, video, thrown, tickv,
                   overlapped, stopRaced, eanv, fnv>>

\* ----------------------------------------------------------- startCamera
\* a statement between the acquisition and the wait for readiness throws
\* (lines 161-166 on a surface that is no media element): the catch block
\* of lines 185-195 rethrows and releases nothing
BindThrows(c) ==
    /\ pc' = [pc EXCEPT ![c] = "rejectedAfterOpen"]
    /\ thrown' = [thrown EXCEPT ![c] = "TypeError"]
    /\ UNCHANGED video

\* lines 160-182: the stream is bound to the video element and the call waits
\* for it to be ready; loaded says whether readyState is already >= 2, bind
\* whether the binding statements throw
BindVideo(c, loaded, bind) ==
    IF bind = "throw"
    THEN loaded /\ BindThrows(c)
    ELSE /\ video' = [srcObject |-> c,
                      onloadedmetadata |-> c,
                      readyState |-> IF loaded THEN HAVE_ENOUGH_DATA ELSE 0]
         /\ pc' = [pc EXCEPT ![c] = IF video'.readyState >= HAVE_CURRENT_DATA
                                    THEN "awaitPlay" ELSE "awaitReady"]
         /\ UNCHANGED thrown

\* getUserMedia resolves with a new stream (lines 122-158); caps says whether
\* the track has capabilities to apply, which suspends on applyConstraints
GumResolves(c, caps, loaded, bind) ==
    /\ TickIdle /\ NoMicrotask
    /\ pc[c] = "awaitGUM"
    /\ stream' = c
    /\ streams' = streams \cup {c}
    /\ IF caps
       THEN /\ loaded /\ bind = "ok"
            /\ pc' = [pc EXCEPT ![c] = "awaitApply"]
            /\ UNCHANGED <<video, thrown>>
       ELSE BindVideo(c, loaded, bind)
    /\ UNCHANGED <<isInitialized, scanner, scanInterval, lastResult, scanCallback,
                   processingFrame, zxing, gumRequests, trackStops, timers,
                   tickv, hist, eanv, fnv>>

\* applyConstraints settles; a rejection is caught at line 155
ApplySettles(c, loaded, bind) ==
    /\ TickIdle /\ NoMicrotask
    /\ pc[c] = "awaitApply"
    /\ BindVideo(c, loaded, bind)
    /\ UNCHANGED <<ctl, zxing, gumRequests, streams, trackStops, timers, tickv,
                   hist, eanv, fnv>>

\* getUserMedia rejects: startCamera's catch rethrows, startScanning rejects
GumRejects(c, name) ==
    /\ TickIdle /\ NoMicrotask
    /\ pc[c] = "awaitGUM"
    /\ pc' = [pc EXCEPT ![c] = "rejected"]
    /\ thrown' = [thrown EXCEPT ![c] = name]
    /\ UNCHANGED <<ctl, zxing, gumRequests, streams, trackStops, timers, video,
                   tickv, hist, eanv, fnv>>

\* the video element fires loadedmetadata: the handler last assigned runs
LoadedMetadata ==
    /\ TickIdle /\ NoMicrotask
    /\ video.srcObject # 0
    /\ video.readyState = 0
    /\ video' = [video EXCEPT !.readyState = 1]
    /\ LET h == video.onloadedmetadata
       IN pc' = IF h # 0 /\ pc[h] = "awaitReady"
                THEN [pc EXCEPT ![h] = "awaitPlay"]
                ELSE pc
    /\ UNCHANGED <<ctl, zxing, gumRequests, streams, trackStops, timers, thrown,
                   tickv, hist, eanv, fnv>>

\* the video element has buffered enough data to play
CanPlayThrough ==
    /\ TickIdle /\ NoMicrotask
    /\ video.readyState = 1
    /\ video' = [video EXCEPT !.readyState = HAVE_ENOUGH_DATA]
    /\ UNCHANGED <<ctl, zxing, pc, gumRequests, streams, trackStops, timers,
                   thrown, tickv, hist, eanv, fnv>>

\* mutant: the reader is created by every start that finds ZXing loaded
CreateReader_always(sc, zx, c) == IF zx THEN c ELSE sc

\* lines 236-274: this.scanner after them, a reader being named by the call
\* that constructed it and set its hints (272-273)
CreateReader(sc, zx, c) == IF sc = 0 /\ zx THEN c ELSE sc

\* mutant: the interval is set without clearing the one in this.scanInterval
FinishStart_noClear(c) ==
    /\ scanner' = CreateReader(scanner, zxing, c)
    /\ timers' = timers \cup {c}
    /\ scanInterval' = c
    /\ pc' = [pc EXCEPT ![c] = "resolved"]

\* lines 235-285: the reader is created if there is none and ZXing is loaded,
\* a leftover interval is cleared and the new one is set
FinishStart(c) ==
    /\ scanner' = CreateReader(scanner, zxing, c)
    /\ timers' = (IF scanInterval # 0 THEN timers \ {scanInterval} ELSE timers)
                 \cup {c}
    /\ scanInterval' = c
    /\ pc' = [pc EXCEPT ![c] = "resolved"]

\* play() settles either way, startCamera returns and startScanning finishes
PlaySettles(c) ==
    /\ TickIdle /\ NoMicrotask
    /\ pc[c] = "awaitPlay"
    /\ FinishStart(c)
    /\ UNCHANGED <<isInitialized, stream, lastResult, scanCallback,
                   processingFrame, zxing, gumRequests, streams, trackStops,
                   video, thrown, tickv, hist, eanv, fnv>>

\* ---------------------------------------------------------- stopScanning
StopScanning ==
    /\ TickIdle
    /\ LET sc == StopCamera(stream, scanInterval, trackStops, timers)
       IN /\ stream' = sc.stream
          /\ scanInterval' = sc.scanInterval
          /\ trackStops' = sc.trackStops
          /\ timers' = sc.timers
    /\ scanCallback' = 0
    /\ stopRaced' = (stopRaced \/ InFlight # {})
    /\ lastCb' = <<>>
    /\ prevCaught' = "none"
    /\ prevSession' = <<>>
    /\ UNCHANGED <<isInitialized, scanner, lastResult, processingFrame, zxing,
                   pc, gumRequests, streams, video, thrown, tickv, overlapped,
                   eanv, fnv>>

\* ------------------------------------------------------------- the tick
\* mutant: the guard does not look at processingFrame
TickGuard_noFlag(readyState, processing) ==
    readyState = HAVE_ENOUGH_DATA

\* the guard of the interval callback (line 282)
TickGuard(readyState, processing) ==
    readyState = HAVE_ENOUGH_DATA /\ ~processing

\* interval h fires; when the guard passes scanBarcode starts: it sets the
\* flag and draws the frame (capture says whether drawing throws, which jumps
\* to the finally block); otherwise the firing does nothing. A firing is
\* admitted at any point of a scanBarcode body, so that it is the guard, not
\* the scheduling of the interval, that keeps bodies from overlapping
TimerFires(h, capture) ==
    /\ h \in timers
    /\ NoMicrotask
    /\ IF TickGuard(video.readyState, processingFrame)
       THEN /\ processingFrame' = TRUE
            /\ tickPos' = IF capture = "throw" THEN 4 ELSE 1
            /\ caught' = IF capture = "throw" THEN "frame" ELSE "none"
            /\ activeTicks' = activeTicks + 1
            /\ attempts' = <<>>
            /\ tickResult' = NoResult
            /\ tickPrev' = lastResult
            /\ tickPrevCb' = lastCb
            /\ tickCb' = 0
       ELSE /\ capture = "ok"
            /\ UNCHANGED <<processingFrame, tickv>>
    /\ UNCHANGED <<isInitialized, scanner, stream, scanInterval, lastResult,
                   scanCallback, plat, hist, eanv, fnv>>

\* mutant: the loop goes on to the next approach when processResult
\* accepted nothing
Deliver_continueOnReject(result, cb) ==
    LET pr == ProcessResult(result, lastResult, scanCallback)
    IN /\ tickResult' = result
       /\ IF pr.calls = <<>>
          THEN cb = "return" /\ caught' = "none"
          ELSE caught' = IF cb = "throw" THEN "callback" ELSE "none"
       /\ lastResult' = pr.lastResult
       /\ tickCb' = tickCb + Len(pr.calls)
       /\ lastCb' = IF pr.calls # <<>> THEN pr.calls[Len(pr.calls)] ELSE lastCb
       /\ tickPos' = IF pr.lastResult = lastResult THEN tickPos + 1 ELSE 4

\* mutant: lastResult is assigned after the callback has returned
Deliver_assignAfterCallback(result, cb) ==
    LET pr == ProcessResult(result, lastResult, scanCallback)
    IN /\ tickResult' = result
       /\ IF pr.calls = <<>>
          THEN cb = "return" /\ caught' = "none"
          ELSE caught' = IF cb = "throw" THEN "callback" ELSE "none"
       /\ lastResult' = IF pr.calls # <<>> /\ cb = "throw"
                         THEN lastResult ELSE pr.lastResult
       /\ tickCb' = tickCb + Len(pr.calls)
       /\ lastCb' = IF pr.calls # <<>> THEN pr.calls[Len(pr.calls)] ELSE lastCb
       /\ tickPos' = 4

\* lines 346-349: a result was found, processResult runs, the tick returns
\* through the finally block; cb says whether the callback, when it is
\* invoked, returns or throws (a throw is caught at line 352)
Deliver(result, cb) ==
    LET pr == ProcessResult(result, lastResult, scanCallback)
    IN /\ tickResult' = result
       /\ IF pr.calls = <<>>
          THEN cb = "return" /\ caught' = "none"
          ELSE caught' = IF cb = "throw" THEN "callback" ELSE "none"
       /\ lastResult' = pr.lastResult
       /\ tickCb' = tickCb + Len(pr.calls)
       /\ lastCb' = IF pr.calls # <<>> THEN pr.calls[Len(pr.calls)] ELSE lastCb
       /\ tickPos' = 4

\* the next approach of the for loop runs: prep says whether building its
\* canvas throws, the other inputs are the outcomes inside performScan
Approach(prep, in, cb) ==
    /\ tickPos \in 1..Len(scanApproaches)
    /\ in \in ApproachInputs(tickPos)
    /\ IF prep = "throw"
       THEN /\ tickPos > 1
            /\ in.lum = "throw"
            /\ cb = "return"
            /\ tickPos' = 4
            /\ caught' = "frame"
            /\ UNCHANGED <<attempts, tickResult, tickPrev, tickPrevCb, tickCb,
                           lastResult, lastCb>>
       ELSE LET ps == PerformScan(scanner, zxing, in.lum, in.hybrid, in.global)
                found == ps.result # NoResult
            IN /\ attempts' = Append(attempts,
                                     [approach |-> scanApproaches[tickPos],
                                      found |-> found])
               /\ UNCHANGED <<tickPrev, tickPrevCb>>
               /\ IF found
                  THEN Deliver(ps.result, cb)
                  ELSE /\ cb = "return"
                       /\ tickPos' = tickPos + 1
                       /\ UNCHANGED <<tickResult, tickCb, lastResult, lastCb,
                                      caught>>
    /\ prevCaught' = "none"
    /\ UNCHANGED <<isInitialized, scanner, stream, scanInterval, scanCallback,
                   processingFrame, activeTicks, plat, prevSession, overlapped,
                   stopRaced, eanv, fnv>>

\* mutant: the flag is reset at the end of the try block, not in finally
Finally_flagAfterTry ==
    /\ tickPos = 4
    /\ processingFrame' = (caught = "frame")
    /\ activeTicks' = activeTicks - 1
    /\ tickPos' = 0
    /\ attempts' = <<>>
    /\ tickResult' = NoResult
    /\ tickPrev' = <<>>
    /\ tickPrevCb' = <<>>
    /\ tickCb' = 0
    /\ caught' = "none"
    /\ prevCaught' = IF caught # "none" THEN caught ELSE prevCaught
    /\ prevSession' = IF tickCb > 0 THEN <<>> ELSE prevSession
    /\ UNCHANGED <<isInitialized, scanner, stream, scanInterval, lastResult,
                   scanCallback, plat, lastCb, overlapped, stopRaced, eanv, fnv>>

\* mutant: the catch block closes the camera when the callback has thrown
Finally_stopOnCallbackError ==
    LET sc == IF caught = "callback"
              THEN StopCamera(stream, scanInterval, trackStops, timers)
              ELSE [stream |-> stream, scanInterval |-> scanInterval,
                    trackStops |-> trackStops, timers |-> timers]
    IN /\ tickPos = 4
       /\ processingFrame' = FALSE
       /\ activeTicks' = activeTicks - 1
       /\ tickPos' = 0
       /\ attempts' = <<>>
       /\ tickResult' = NoResult
       /\ tickPrev' = <<>>
       /\ tickPrevCb' = <<>>
       /\ tickCb' = 0
       /\ caught' = "none"
       /\ prevCaught' = IF caught # "none" THEN caught ELSE prevCaught
       /\ prevSession' = IF tickCb > 0 THEN <<>> ELSE prevSession
       /\ stream' = sc.stream
       /\ scanInterval' = sc.scanInterval
       /\ trackStops' = sc.trackStops
       /\ timers' = sc.timers
       /\ UNCHANGED <<isInitialized, scanner, lastResult, scanCallback, zxing,
                      pc, gumRequests, streams, video, thrown, lastCb,
                      overlapped, stopRaced, eanv, fnv>>

\* the catch and finally blocks of scanBarcode; the invocation returns
Finally ==
    /\ tickPos = 4
    /\ processingFrame' = FALSE
    /\ activeTicks' = activeTicks - 1
    /\ tickPos' = 0
    /\ attempts' = <<>>
    /\ tickResult' = NoResult
    /\ tickPrev' = <<>>
    /\ tickPrevCb' = <<>>
    /\ tickCb' = 0
    /\ caught' = "none"
    /\ prevCaught' = IF caught # "none" THEN caught ELSE prevCaught
    /\ prevSession' = IF tickCb > 0 THEN <<>> ELSE prevSession
    /\ UNCHANGED <<isInitialized, scanner, stream, scanInterval, lastResult,
                   scanCallback, plat, lastCb, overlapped, stopRaced, eanv, fnv>>

\* ------------------------------------------------------------------ Next
Next ==
    \/ \E c \in Calls : StartScanning(c)
    \/ \E c \in Calls : InitDone(c)
    \/ \E c \in Calls, ok \in BOOLEAN : LoadSettles(c, ok)
    \/ \E c \in Calls, caps \in BOOLEAN, loaded \in BOOLEAN, bind \in {"ok", "throw"} :
           GumResolves(c, caps, loaded, bind)
    \/ \E c \in Calls, loaded \in BOOLEAN, bind \in {"ok", "throw"} :
           ApplySettles(c, loaded, bind)
    \/ \E c \in Calls, name \in GumErrors : GumRejects(c, name)
    \/ LoadedMetadata
    \/ CanPlayThrough
    \/ \E c \in Calls : PlaySettles(c)
    \/ StopScanning
    \/ \E h \in Calls, capture \in {"ok", "throw"} : TimerFires(h, capture)
    \/ \E prep \in {"ok", "throw"}, in \in ScanInputs, cb \in {"return", "throw"} :
           Approach(prep, in, cb)
    \/ Finally

Spec == Init /\ [][Next]_vars

\* what the platform owes the controller: a started scanBarcode runs to its
\* return (it is synchronous); a continuation whose promise has settled is
\* run by the event loop; the script load, each getUserMedia request,
\* applyConstraints and play() settle; the video element fires
\* loadedmetadata after a stream was bound to it. The continuations are
\* disabled while a scanBarcode body runs, hence strong fairness. Calls of
\* startScanning and stopScanning and the firings of the interval are owed
\* to nobody
Platform ==
    /\ WF_vars(Finally)
    /\ WF_vars(\E prep \in {"ok", "throw"}, in \in ScanInputs,
                  cb \in {"return", "throw"} : Approach(prep, in, cb))
    /\ \A c \in Calls :
           /\ SF_vars(InitDone(c))
           /\ SF_vars(\E ok \in BOOLEAN : LoadSettles(c, ok))
           /\ SF_vars(\/ \E caps \in BOOLEAN, loaded \in BOOLEAN,
                             bind \in {"ok", "throw"} :
                               GumResolves(c, caps, loaded, bind)
                        \/ \E name \in GumErrors : GumRejects(c, name))
           /\ SF_vars(\E loaded \in BOOLEAN, bind \in {"ok", "throw"} :
                          ApplySettles(c, loaded, bind))
           /\ SF_vars(PlaySettles(c))
    /\ SF_vars(LoadedMetadata)

SpecLive == Spec /\ Platform

\* ------------------------------------------------- validateEan13 harness
EanAlpha == <<4,0,0,6,3,8,1,3,3,3,9,3,10>>

\* the characters an edit can write: ASCII digits, 'A', a non-ASCII digit
Chars == 0..11

EanSeeds == {Str(EanX), Str(EanY), Str(EanBad), Str(EanAlpha), Str(Short),
             Num(EanX)}

InitEan ==
    /\ Constructed
    /\ zxing = FALSE
    /\ eanBase \in EanSeeds
    /\ eanIn = eanBase
    /\ eanEdits = 0
    /\ eanOut = "unset"
    /\ NoCalls

\* one character of the input is replaced by another
EanReplace(p, ch) ==
    /\ eanEdits < MaxEdits
    /\ p \in 1..Len(eanIn.chars)
    /\ ch # eanIn.chars[p]
    /\ eanIn' = [eanIn EXCEPT !.chars[p] = ch]
    /\ eanEdits' = eanEdits + 1
    /\ eanOut' = "unset"
    /\ UNCHANGED <<ctl, plat, tickv, hist, fnv, eanBase>>

\* the input loses its last character or gains one
EanResize(grow) ==
    /\ eanEdits < MaxEdits
    /\ IF grow
       THEN eanIn' = [eanIn EXCEPT !.chars = Append(@, 0)]
       ELSE /\ Len(eanIn.chars) > 0
            /\ eanIn' = [eanIn EXCEPT !.chars = SubSeq(@, 1, Len(@) - 1)]
    /\ eanEdits' = eanEdits + 1
    /\ eanOut' = "unset"
    /\ UNCHANGED <<ctl, plat, tickv, hist, fnv, eanBase>>

\* validateEan13(eanIn) is called
EanValidate ==
    /\ eanOut = "unset"
    /\ eanOut' = IF validateEan13(eanIn) THEN "true" ELSE "false"
    /\ UNCHANGED <<ctl, plat, tickv, hist, fnv, eanBase, eanIn, eanEdits>>

NextEan ==
    \/ \E p \in 1..14, ch \in Chars : EanReplace(p, ch)
    \/ \E grow \in BOOLEAN : EanResize(grow)
    \/ EanValidate

SpecEan == InitEan /\ [][NextEan]_vars

\* ----------------------------------------------------- performScan alone
\* a controller with no start in progress, about to call performScan
InitScan ==
    /\ Constructed
    /\ zxing = FALSE
    /\ eanBase = Str(<<>>)
    /\ eanIn = Str(<<>>)
    /\ eanEdits = 0
    /\ eanOut = "unset"
    /\ NoCalls

\* performScan(canvas) is called on a controller whose scanner is sc (a
\* reader exists only where ZXing is loaded) and runs to its return
PerformScanCall(sc, zx, lum, hybrid, global) ==
    /\ sc # 0 => zx
    /\ psIn' = [scanner |-> sc, zxing |-> zx, lum |-> lum, hybrid |-> hybrid,
                global |-> global]
    /\ psOut' = PerformScan(sc, zx, lum, hybrid, global)
    /\ UNCHANGED <<ctl, plat, tickv, hist, eanv, imgIn, imgOut, invv>>

NextScan ==
    \E sc \in {0, 1}, zx \in BOOLEAN, lum \in {"ok", "throw"},
       hybrid \in DecodeOutcomes, global \in DecodeOutcomes :
        PerformScanCall(sc, zx, lum, hybrid, global)

SpecScan == InitScan /\ [][NextScan]_vars

\* ------------------------------------------ enhanceImageForBarcode alone
Rasters ==
    UNION { [width : {w}, height : {h}, data : [1..(w * h) -> Pixels]] :
              <<w, h>> \in {wh \in (1..MaxPixels) \X (1..MaxPixels) :
                                wh[1] * wh[2] <= MaxPixels} }

\* enhanceImageForBarcode(src) is called and returns
EnhanceCall(src) ==
    /\ imgIn' = src
    /\ imgOut' = enhanceImageForBarcode(src)
    /\ UNCHANGED <<ctl, plat, tickv, hist, eanv, psIn, psOut, invv>>

NextEnhance == \E src \in Rasters : EnhanceCall(src)

SpecEnhance == InitScan /\ [][NextEnhance]_vars

\* --------------------------------------------------- the ScanInvoice page
\* what the page leaves alone
service == <<ctl, plat, tickv, hist, eanv, psIn, psOut, imgIn, imgOut>>

\* the barcodes scanned or typed, and the price of the product of each
Barcodes == {EanX, EanY}

ProductPrice(barcode) == IF barcode = EanX THEN 5 ELSE 3

\* findIndex: the first index of items whose barcode is the given one, 0
\* standing for -1
FindIndex(items, barcode) ==
    LET hits == {i \in 1..Len(items) : items[i].barcode = barcode}
    IN IF hits = {} THEN 0 ELSE CHOOSE i \in hits : \A j \in hits : i <= j

TotalUnits(items) ==
    LET RECURSIVE Sum(_)
        Sum(i) == IF i = 0 THEN 0 ELSE items[i].quantity + Sum(i - 1)
    IN Sum(Len(items))

\* addProductToInvoice(product) (lines 251-281): seen is invoiceItems of the
\* render the function belongs to, prevItems the state the updater is given,
\* runs the number of times React invokes the updater (twice under
\* StrictMode in a development build), which increments the same object.
\* Yields the next invoiceItems
addProductToInvoice(seen, prevItems, barcode, runs) ==
    LET existingIndex == FindIndex(seen, barcode)
    IN IF existingIndex # 0
       THEN [prevItems EXCEPT
                ![existingIndex].quantity = @ + runs,
                ![existingIndex].total =
                    (prevItems[existingIndex].quantity + runs)
                        * prevItems[existingIndex].price]
       ELSE Append(prevItems, [barcode |-> barcode, quantity |-> 1,
                               price |-> ProductPrice(barcode),
                               total |-> ProductPrice(barcode)])

\* the camera is switched on: the effect of lines 295-306 passes the
\* handleBarcodeScan of its render to startScanning, which resets lastResult
OpenCamera ==
    /\ ~isCameraOpen
    /\ isCameraOpen' = TRUE
    /\ closureItems' = invoiceItems
    /\ lastScanned' = <<>>
    /\ UNCHANGED <<invoiceItems, service>>

\* toggleCamera with the camera on (lines 284-292)
CloseCamera ==
    /\ isCameraOpen
    /\ isCameraOpen' = FALSE
    /\ UNCHANGED <<invoiceItems, closureItems, lastScanned, service>>

\* the scanner delivers a barcode to the registered handleBarcodeScan
\* (121-133), which runs processBarcode to its end; found says whether the
\* product exists, in which case it is added to the invoice
ScanDelivered(barcode, found, runs) ==
    /\ isCameraOpen
    /\ barcode # lastScanned
    /\ TotalUnits(invoiceItems) < MaxUnits
    /\ lastScanned' = barcode
    /\ invoiceItems' = IF found
                        THEN addProductToInvoice(closureItems, invoiceItems,
                                                 barcode, runs)
                        ELSE invoiceItems
    /\ UNCHANGED <<isCameraOpen, closureItems, service>>

\* a barcode is typed and Enter pressed: processBarcode of the current
\* render runs to its end
ManualEntry(barcode, found, runs) ==
    /\ TotalUnits(invoiceItems) < MaxUnits
    /\ invoiceItems' = IF found
                        THEN addProductToInvoice(invoiceItems, invoiceItems,
                                                 barcode, runs)
                        ELSE invoiceItems
    /\ UNCHANGED <<isCameraOpen, closureItems, lastScanned, service>>

NextInvoice ==
    \/ OpenCamera
    \/ CloseCamera
    \/ \E b \in Barcodes, found \in BOOLEAN, runs \in {1, 2} :
           ScanDelivered(b, found, runs)
    \/ \E b \in Barcodes, found \in BOOLEAN, runs \in {1, 2} :
           ManualEntry(b, found, runs)

SpecInvoice == InitScan /\ [][NextInvoice]_vars

\* ================================================================ claims

\* C1: in every reachable state at most one acquired stream has un-stopped
\* tracks, and such a stream is the one this.stream refers to.
C1_AtMostOneLiveStream ==
    /\ Cardinality(LiveStreams) <= 1
    /\ LiveStreams \subseteq {stream}

\* C2: when stopScanning ran while a startScanning call was in flight and no
\* start was issued since, then once no call is in flight no stream is open
\* and no interval is live.
C2_StopReachesIdle ==
    (stopRaced /\ InFlight = {}) =>
        /\ LiveStreams = {}
        /\ timers = {}
        /\ stream = 0
        /\ scanInterval = 0

\* C3: the callback is never invoked with a text equal to lastResult as it
\* was when the tick began, so two consecutive callback
\* invocations of a session never carry the same text.
C3_NoDuplicateDelivery ==
    (tickPos = 4 /\ tickCb > 0) =>
        /\ tickResult.text # tickPrev
        /\ lastCb = tickResult.text
        /\ lastCb # tickPrevCb

C3_Witness ==
    /\ tickPos = 4
    /\ scanCallback # 0
    /\ tickResult.text = EanX
    /\ tickPrev = EanX
    /\ tickPrevCb = EanX
    /\ tickCb = 0

\* the result validator lets r through (duplicate check aside)
Validated(r) ==
    /\ r.text # <<>>
    /\ (r.format = "EAN_13" \/ Len(r.text) = 13) => validateEan13(Str(r.text))

\* the texts the callback receives over a sequence of ticks, rs[i] being the
\* result tick i decoded (NoResult when it found nothing)
RECURSIVE RunTicks(_, _, _)
RunTicks(rs, last, cb) ==
    IF rs = <<>>
    THEN <<>>
    ELSE LET pr == ProcessResult(Head(rs), last, cb)
         IN pr.calls \o RunTicks(Tail(rs), pr.lastResult, cb)

ResX == [text |-> EanX, format |-> "EAN_13"]
ResY == [text |-> EanY, format |-> "EAN_13"]

\* what a callback registered as 1 receives from ticks decoding
\* (nothing, X, X) and (X, Y, X), starting from lastResult = null
DeliveredNoneXX == RunTicks(<<NoResult, ResX, ResX>>, <<>>, 1)
DeliveredXYX == RunTicks(<<ResX, ResY, ResX>>, <<>>, 1)

\* C4: a tick that decodes a text which passes validation and differs from
\* lastResult invokes the registered callback exactly once, with that text,
\* and lastResult becomes that text; ticks decoding (nothing, X, X) deliver
\* X once and ticks decoding (X, Y, X) deliver three times.
C4_ExactlyOnceDelivery ==
    /\ (tickPos = 4 /\ tickResult # NoResult /\ Validated(tickResult)
        /\ tickResult.text # tickPrev /\ scanCallback # 0) =>
           /\ tickCb = 1
           /\ lastCb = tickResult.text
           /\ lastResult = tickResult.text
    /\ DeliveredNoneXX = <<EanX>>
    /\ DeliveredXYX = <<EanX, EanY, EanX>>

C4_Witness ==
    /\ tickPos = 4
    /\ tickCb = 1
    /\ tickPrev = Short
    /\ tickResult = ResX
    /\ lastResult = EanX

\* C5: lastResult is null or a text the validator accepted, every callback
\* invocation carries such a text, and a result that fails the check changes
\* neither lastResult nor reaches the callback.
C5_OnlyValidatedAccepted ==
    /\ Len(lastResult) = 13 => validateEan13(Str(lastResult))
    /\ (tickPos = 4 /\ (lastResult # tickPrev \/ tickCb > 0)) =>
           /\ Validated(tickResult)
           /\ lastResult = tickResult.text
    /\ (tickPos = 4 /\ tickResult # NoResult /\ ~Validated(tickResult)) =>
           /\ lastResult = tickPrev
           /\ lastCb = tickPrevCb
           /\ tickCb = 0

C5_Witness ==
    /\ tickPos = 4
    /\ tickResult = [text |-> EanBad, format |-> "CODE_128"]
    /\ tickPrev = EanX
    /\ lastResult = EanX
    /\ scanCallback # 0

\* the EAN-13 rule as the claim states it: position i (from 1) has weight 1
\* when i is odd and 3 when i is even
PositionWeight(i) == IF i % 2 = 1 THEN 1 ELSE 3

RECURSIVE WeightedSum(_, _)
WeightedSum(s, n) ==
    IF n = 0 THEN 0 ELSE WeightedSum(s, n - 1) + s[n] * PositionWeight(n)

Ean13Expected(v) ==
    /\ v.type = "string"
    /\ Len(v.chars) = 13
    /\ \A i \in 1..Len(v.chars) : v.chars[i] \in 0..9
    /\ v.chars[13] = (10 - (WeightedSum(v.chars, 12) % 10)) % 10

\* C6: validateEan13(s) is true iff s is a string of exactly 13 ASCII digits
\* whose 13th digit is (10 - (weighted sum of the first 12) mod 10) mod 10;
\* "4006381333931" is valid, "4006381333930", "12345" and "400638133393A"
\* are not.
C6_ValidateEan13 ==
    eanOut # "unset" =>
        /\ (eanOut = "true") <=> Ean13Expected(eanIn)
        /\ eanIn = Str(EanX) => eanOut = "true"
        /\ eanIn \in {Str(EanBad), Str(Short), Str(EanAlpha), Num(EanX)}
              => eanOut = "false"

C6_Witness ==
    /\ eanBase = Str(EanBad)
    /\ eanEdits = 1
    /\ eanIn = Str(EanX)
    /\ eanOut = "true"

\* C7: no track is ever stopped more than once; when stopScanning returns
\* and no two startScanning calls ever overlapped and none is in flight,
\* every track of every acquired stream was stopped exactly once; a
\* stopScanning with nothing open stops no track and leaves the fields and
\* resources as they were (it only clears the callback reference).
C7_StopStep ==
    StopScanning =>
        /\ (~overlapped /\ InFlight = {}) =>
               \A s \in streams, t \in Tracks : trackStops'[s][t] = 1
        /\ (stream = 0 /\ scanInterval = 0) =>
               UNCHANGED <<isInitialized, scanner, stream, scanInterval,
                           lastResult, processingFrame, plat, tickv>>

C8_FiringWhileBusy ==
    (processingFrame /\ \E h \in Calls, capture \in {"ok", "throw"} :
                             TimerFires(h, capture)) => UNCHANGED vars

C8_NoOverlappingTicks ==
    /\ [](activeTicks <= 1 /\ tickCb <= 1 /\ (processingFrame <=> tickPos # 0))
    /\ [][C8_FiringWhileBusy]_vars

C8_Witness ==
    /\ processingFrame
    /\ tickPos \in 2..3
    /\ activeTicks = 1
    /\ scanInterval \in timers
    /\ video.readyState = HAVE_ENOUGH_DATA

\* C9: within a tick the approaches are attempted in the order raw,
\* enhanced, strip, and one is attempted only after all earlier ones found
\* nothing.
C9_ApproachOrder ==
    /\ Len(attempts) <= 3
    /\ \A i \in 1..Len(attempts) :
           /\ attempts[i].approach = <<"raw", "enhanced", "strip">>[i]
           /\ i < Len(attempts) => ~attempts[i].found

C9_Witness ==
    /\ tickPos = 4
    /\ attempts = <<[approach |-> "raw", found |-> FALSE],
                    [approach |-> "enhanced", found |-> TRUE]>>

\* C10: a startScanning call whose getUserMedia request failed is rejected,
\* has issued one request, has created no interval and holds no stream; and
\* once it is rejected and no later call was issued, no stream is open and
\* no interval is live.
C10_FailedStartIsIdle ==
    \A c \in Calls :
        pc[c] = "rejected" =>
            /\ gumRequests[c] = 1
            /\ c \notin timers
            /\ c \notin streams
            /\ (\A d \in Calls : d > c => pc[d] = "new") =>
                   /\ stream = 0
                   /\ scanInterval = 0
                   /\ timers = {}
                   /\ LiveStreams = {}

\* the case of C10 in which every startScanning call was issued after the
\* previous one had finished (the previous session may be running)
FailedStartIsIdle_Sequential ==
    \A c \in Calls :
        (pc[c] = "rejected" /\ ~overlapped) =>
            /\ gumRequests[c] = 1
            /\ c \notin timers
            /\ c \notin streams
            /\ (\A d \in Calls : d > c => pc[d] = "new") =>
                   /\ stream = 0
                   /\ scanInterval = 0
                   /\ timers = {}
                   /\ LiveStreams = {}

FailedStartAfterRunning ==
    /\ ~overlapped
    /\ pc[1] = "resolved"
    /\ pc[2] = "rejected"
    /\ scanCallback = 2
    /\ \A t \in Tracks : trackStops[1][t] = 1
    /\ stream = 0
    /\ timers = {}

\* calls that have rejected
Rejected == {c \in Calls : pc[c] \in {"rejected", "rejectedAfterOpen"}}

\* c is the last call issued and no call was ever issued while another was
\* in flight
LastSequential(c) ==
    /\ ~overlapped
    /\ \A d \in Calls : d > c => pc[d] = "new"

\* C11: once startCamera has rejected (calls not overlapping, no later call),
\* this.stream is null and no track of a stream acquired by that call is
\* left running.
C11_RejectedCameraIsClosed ==
    \A c \in Rejected :
        LastSequential(c) =>
            /\ stream = 0
            /\ c \notin LiveStreams

\* the kind the claim assigns to a platform failure
KindOfFailure(name) ==
    IF name = "NotAllowedError" THEN "permission-denied"
    ELSE IF name = "NotFoundError" THEN "no-device-found"
    ELSE "hardware-error"

\* the kind a caller reads off the message of the Error it caught
KindOfMessage(msg) ==
    IF msg = <<"Camera access denied. Please grant camera permission.">>
    THEN "permission-denied"
    ELSE IF msg = <<"No camera found on this device.">>
    THEN "no-device-found"
    ELSE IF msg # <<>> /\ Head(msg) = "Camera error: "
    THEN "hardware-error"
    ELSE "unknown"

TickStep == tickPos' # tickPos

\* what a tick must leave alone whatever happens in it
TickFrame == UNCHANGED <<stream, scanInterval, timers, trackStops, scanCallback>>

C13_Step ==
    /\ TickStep => TickFrame
    \* capture or preprocessing throws: straight to the catch block
    /\ (TickStep /\ caught' = "frame") =>
           tickPos' = 4 /\ UNCHANGED <<lastResult, lastCb>>
    \* a decode that throws makes its approach return null
    /\ (TickStep /\ tickPos \in 1..3 /\ tickResult' = NoResult) =>
           UNCHANGED <<lastResult, lastCb>>
    /\ (TickStep /\ tickPos = 4) => (tickPos' = 0 /\ ~processingFrame')
    \* the firing after a tick that threw starts a tick
    /\ \A h \in timers :
           (prevCaught = "frame" /\ tickPos = 0
                /\ video.readyState = HAVE_ENOUGH_DATA /\ TimerFires(h, "ok"))
               => (tickPos' = 1 /\ processingFrame')

\* C13: an exception raised in a tick by capture, preprocessing or decoding
\* is caught inside the tick: the tick ends through the finally block with
\* the in-progress flag reset, the timer, the stream, the callback reference
\* and lastResult are as before, and the next firing starts a tick.
C13_TickErrorsContained ==
    /\ [](/\ caught = "frame" =>
                (tickPos = 4 /\ processingFrame /\ lastResult = tickPrev
                     /\ tickCb = 0 /\ timers # {})
          /\ tickPos = 0 => ~processingFrame)
    /\ [][C13_Step]_vars

C13_Witness ==
    /\ prevCaught = "frame"
    /\ tickPos = 1
    /\ processingFrame
    /\ lastResult = EanX

C14_Step ==
    /\ (TickStep /\ caught = "callback") =>
           /\ tickPos' = 0 /\ ~processingFrame'
           /\ TickFrame
           /\ UNCHANGED <<lastResult, lastCb>>
    /\ \A h \in timers :
           (prevCaught = "callback" /\ tickPos = 0
                /\ video.readyState = HAVE_ENOUGH_DATA /\ TimerFires(h, "ok"))
               => (tickPos' = 1 /\ processingFrame')
    /\ (prevCaught = "callback" /\ StopScanning) =>
           /\ timers' = {} /\ scanInterval' = 0 /\ stream' = 0
           /\ stream # 0 => \A t \in Tracks : trackStops'[stream][t] = 1

\* C14: when the registered callback throws, the exception is caught inside
\* the tick: the tick ends with the in-progress flag reset and the timer and
\* the stream still held, the next firing starts a tick, and a later
\* stopScanning clears the timer and stops every track of the stream.
C14_ThrowingCallback ==
    /\ [](/\ caught = "callback" =>
                (tickPos = 4 /\ tickCb = 1 /\ scanCallback # 0
                     /\ lastResult = tickResult.text /\ timers # {})
          /\ prevCaught = "callback" => (timers # {} /\ scanCallback # 0))
    /\ [][C14_Step]_vars

C14_Witness ==
    /\ prevCaught = "callback"
    /\ tickPos = 1
    /\ processingFrame
    /\ stream # 0
    /\ lastResult = Short

\* C15: once stopScanning has returned, no startScanning call being in
\* flight then or since, no interval is live, no stream is open, the
\* callback reference is null and lastResult is empty.
C15_StopResetsSession ==
    (scanCallback = 0 /\ pc[1] # "new" /\ InFlight = {}
         /\ ~stopRaced /\ ~overlapped) =>
        /\ timers = {}
        /\ scanInterval = 0
        /\ stream = 0
        /\ LiveStreams = {}
        /\ lastResult = <<>>

\* C16: when a startScanning call has resolved, with no stopScanning and no
\* other startScanning since it was invoked, its stream is open, its interval
\* is the one live interval, its callback is registered and a reader exists.
C16_ResolvedStartIsScanning ==
    \A c \in Calls :
        (pc[c] = "resolved" /\ LastSequential(c) /\ scanCallback = c
             /\ ~stopRaced) =>
            /\ stream = c
            /\ c \in LiveStreams
            /\ scanInterval = c
            /\ timers = {c}
            /\ scanner # 0

\* C17: after a stopScanning, and until startScanning is invoked again, no
\* tick invokes the callback, whatever calls were in flight at the stop.
C17_NoCallbackAfterStop ==
    /\ tickCb > 0 => scanCallback # 0
    /\ stopRaced => tickCb = 0

\* the decode results the validator lets through
ValidatedResults == {r \in DecodeResults : Validated(r)}

\* the result r of a tick that began with lastResult = last is rejected
RejectedResult(r, last) ==
    r # NoResult /\ (r \notin ValidatedResults \/ r.text = last)

\* what a callback registered as 1 receives from ticks decoding X, then a
\* 13-digit text with a wrong check digit, then X again
DeliveredXBadX ==
    RunTicks(<<ResX, [text |-> EanBad, format |-> "EAN_13"], ResX>>, <<>>, 1)

C18_Step ==
    (tickPos \in 1..3 /\ tickPos' = 4 /\ RejectedResult(tickResult', lastResult)) =>
        /\ UNCHANGED <<lastResult, lastCb, scanCallback>>
        /\ TickFrame
        /\ tickCb' = 0

\* C18: a tick whose decoded result fails the EAN-13 check or equals
\* lastResult leaves lastResult, the callback reference, the stream and the
\* interval as they were and invokes no callback; ticks decoding X, an
\* invalid 13-digit text and X again deliver X once.
C18_RejectedResultChangesNothing ==
    /\ [](/\ (tickPos = 4 /\ RejectedResult(tickResult, tickPrev)) =>
                (lastResult = tickPrev /\ lastCb = tickPrevCb /\ tickCb = 0)
          /\ DeliveredXBadX = <<EanX>>)
    /\ [][C18_Step]_vars

C18_Witness ==
    /\ tickPos = 4
    /\ tickResult = [text |-> EanBad, format |-> "EAN_13"]
    /\ tickPrev = EanX
    /\ tickPrevCb = EanX
    /\ lastResult = EanX
    /\ scanCallback # 0
    /\ stream # 0
    /\ timers # {}

\* C19: from the moment a startScanning call registers its callback,
\* lastResult is the text last delivered to that callback (empty until the
\* first delivery), whatever an earlier session left behind; no interval is
\* live between the reset and the call's own setInterval; so the first tick
\* of the session that decodes a valid text delivers it, also when the text
\* is the one last delivered in the session the call replaced.
C19_StartResetsLastResult ==
    /\ scanCallback # 0 => lastResult = lastCb
    /\ \A c \in Calls :
           (pc[c] = "awaitGUM" /\ ~overlapped) =>
               (lastResult = <<>> /\ timers = {} /\ tickPos = 0)
    /\ (tickPos = 4 /\ scanCallback # 0 /\ tickPrevCb = <<>>
            /\ tickResult \in ValidatedResults) =>
           (tickCb = 1 /\ lastCb = tickResult.text)

C19_Witness ==
    /\ pc[1] = "resolved"
    /\ pc[2] = "resolved"
    /\ scanCallback = 2
    /\ prevSession = EanX
    /\ tickPos = 4
    /\ tickPrevCb = <<>>
    /\ tickResult = ResX
    /\ tickCb = 1

\* C20: while a startScanning call that overlaps no other waits for the
\* stream it requested, every track of every stream handed out before is
\* stopped, this.stream and this.scanInterval are null, no interval is live
\* and no scanBarcode is running; the call issued one getUserMedia request;
\* until the call sets its own interval no interval is live and no stream
\* but the call's is open.
C20_CloseBeforeOpen ==
    /\ \A c \in Calls :
        (pc[c] = "awaitGUM" /\ ~overlapped) =>
            /\ LiveStreams = {}
            /\ \A s \in streams, t \in Tracks : trackStops[s][t] = 1
            /\ stream = 0
            /\ scanInterval = 0
            /\ timers = {}
            /\ activeTicks = 0
            /\ gumRequests[c] = 1
    /\ \A c \in Calls :
           (pc[c] \in {"awaitApply", "awaitReady", "awaitPlay"} /\ ~overlapped) =>
               (timers = {} /\ activeTicks = 0 /\ LiveStreams \subseteq {c})

C20_Witness ==
    /\ pc[1] = "resolved"
    /\ pc[2] = "awaitGUM"
    /\ ~overlapped
    /\ prevSession = Short
    /\ streams = {1}
    /\ \A t \in Tracks : trackStops[1][t] = 1
    /\ timers = {}
    /\ scanCallback = 2

C21_Step ==
    /\ scanner # 0 => scanner' = scanner
    /\ (scanner = 0 /\ scanner' # 0) =>
           /\ zxing
           /\ pc[scanner'] = "awaitPlay"
           /\ pc'[scanner'] = "resolved"

\* C21: the reader is constructed only by a startScanning call whose
\* startCamera returned while ZXing is loaded and no reader exists; once
\* this.scanner is non-null no step of any start, stop or tick replaces or
\* clears it, so it is constructed at most once and keeps the hints it got.
C21_ReaderConstructedOnce ==
    /\ [](scanner # 0 => (zxing /\ pc[scanner] = "resolved"))
    /\ [][C21_Step]_vars

C21_Witness ==
    /\ scanner = 1
    /\ pc[1] = "resolved"
    /\ pc[2] = "resolved"
    /\ scanInterval = 2
    /\ stream = 2

\* the call of the harness got as far as the first decode
FirstDecodeMade == psIn.zxing /\ psIn.lum = "ok" /\ psIn.scanner # 0

\* C22: performScan never throws; it decodes first with the hybrid
\* binarizer, makes a second attempt with the global-histogram binarizer
\* exactly when the first raised NotFoundException, makes no third one, and
\* returns the result of the attempt that succeeded, and null when an
\* attempt raised anything else, the second found nothing, or the luminance
\* source could not be built.
C22_PerformScanRetry ==
    psIn.lum # "unset" =>
        /\ ~psOut.threw
        /\ psOut.binarizers \in {<<>>, <<"hybrid">>, <<"hybrid", "global">>}
        /\ psOut.binarizers # <<>> <=> FirstDecodeMade
        /\ Len(psOut.binarizers) = 2 <=>
               (FirstDecodeMade /\ psIn.hybrid = NotFoundException)
        /\ psOut.result =
               IF ~FirstDecodeMade THEN NoResult
               ELSE IF psIn.hybrid \in DecodeResults THEN psIn.hybrid
               ELSE IF psIn.hybrid = NotFoundException
                       /\ psIn.global \in DecodeResults THEN psIn.global
               ELSE NoResult

C22_Witness ==
    /\ psIn.scanner # 0
    /\ psIn.lum = "ok"
    /\ psIn.hybrid = OtherException
    /\ psIn.global = [text |-> EanX, format |-> "EAN_13"]
    /\ psOut.binarizers = <<"hybrid">>
    /\ psOut.result = NoResult

Settled(c) == pc[c] \in {"resolved", "rejected", "rejectedAfterOpen"}

\* every startScanning call that overlapped no other one settles
SequentialStartSettles ==
    \A c \in Calls : (pc[c] \in InFlightPcs) ~> (Settled(c) \/ overlapped)

\* C23: every startScanning call that was invoked eventually resolves or
\* rejects, whatever startScanning and stopScanning calls are made meanwhile.
C23_EveryStartSettles ==
    \A c \in Calls : (pc[c] \in InFlightPcs) ~> Settled(c)

\* C24: enhanceImageForBarcode returns a raster of the width and height of
\* its source in which each pixel has R = G = B, equal to 255 when the
\* channels of the source pixel sum to 369 or more, which is when
\* ((R+G+B)/3 - 128) * 1.5 + 128 exceeds 120 in exact arithmetic, and to 0
\* otherwise; alpha is the source pixel's; the source is left as it was.
C24_EnhanceThreshold ==
    imgIn.width > 0 =>
        LET out == imgOut.canvas
        IN /\ imgOut.source = imgIn
           /\ out.width = imgIn.width
           /\ out.height = imgIn.height
           /\ Len(out.data) = Len(imgIn.data)
           /\ \A i \in 1..Len(imgIn.data) :
                  LET src == imgIn.data[i]
                      px == out.data[i]
                      sum == src[1] + src[2] + src[3]
                  IN /\ px[1] \in {0, 255}
                     /\ px[2] = px[1]
                     /\ px[3] = px[1]
                     /\ px[4] = src[4]
                     /\ px[1] = 255 <=> sum >= 369
                     \* twice the contrast-scaled value against twice 120
                     /\ px[1] = 255 <=> (sum - 384) * 3 + 6 * 128 > 6 * Cutoff

C24_Witness ==
    /\ imgIn.width = 2
    /\ imgIn.height = 1
    /\ imgIn.data = << <<122, 123, 123, 255>>, <<123, 123, 123, 255>> >>
    /\ imgOut.canvas.data = << <<0, 0, 0, 255>>, <<255, 255, 255, 255>> >>

\* C25: every interval that was set and not cleared is the one whose handle
\* this.scanInterval holds, in every interleaving of start and stop calls,
\* so at most one is live and stopScanning leaves none.
C25_OneLiveTimer ==
    /\ [](/\ timers = IF scanInterval = 0 THEN {} ELSE {scanInterval}
          /\ Cardinality(timers) <= 1)
    /\ [][StopScanning => timers' = {}]_vars

C25_Witness ==
    /\ overlapped
    /\ pc[1] = "resolved"
    /\ pc[2] = "resolved"
    /\ streams = {1, 2}
    /\ timers = {2}
    /\ scanInterval = 2

\* what processResult does with X when no callback is registered, and with
\* X again once one is
AcceptedUnheard == ProcessResult(ResX, <<>>, 0)
RepeatedAfterUnheard == ProcessResult(ResX, AcceptedUnheard.lastResult, 1)

\* C26: a tick that decodes a valid text different from lastResult makes it
\* lastResult whether or not a callback is registered and whether or not
\* the callback throws; a tick that decodes the text lastResult holds
\* invokes no callback, also right after a tick whose callback threw.
C26_RecordedBeforeCallback ==
    /\ (tickPos = 4 /\ tickResult \in ValidatedResults
            /\ tickResult.text # tickPrev) =>
           (lastResult = tickResult.text /\ tickCb = IF scanCallback = 0 THEN 0 ELSE 1)
    /\ caught = "callback" => (lastResult = tickResult.text /\ tickCb = 1)
    /\ prevCaught = "callback" => (lastResult # <<>> /\ lastResult = lastCb)
    /\ (tickPos = 4 /\ tickResult # NoResult /\ tickResult.text = tickPrev) =>
           (tickCb = 0 /\ lastResult = tickPrev)
    /\ AcceptedUnheard = [lastResult |-> EanX, calls |-> <<>>]
    /\ RepeatedAfterUnheard = [lastResult |-> EanX, calls |-> <<>>]

C26_Witness ==
    /\ caught = "callback"
    /\ tickPos = 4
    /\ tickPrev = <<>>
    /\ tickResult = ResX
    /\ lastResult = EanX
    /\ tickCb = 1

\* a text is accepted while no callback is registered
AcceptedWithoutCallback ==
    /\ scanCallback = 0
    /\ tickPos = 4
    /\ tickResult = ResX
    /\ tickPrev = <<>>
    /\ lastResult = EanX
    /\ tickCb = 0

\* the approaches of the running scanBarcode that returned a result
FoundAttempts == {i \in 1..Len(attempts) : attempts[i].found}

\* C27: in a tick at most one approach returns a result, it is the last one
\* run, its result is the only one handed to processResult and the loop is
\* left at once; at most one callback invocation is made; when that result
\* is rejected the tick ends with no callback invocation.
C27_OneResultPerTick ==
    /\ tickCb <= 1
    /\ Cardinality(FoundAttempts) <= 1
    /\ FoundAttempts # {} <=> tickResult # NoResult
    /\ FoundAttempts # {} => (FoundAttempts = {Len(attempts)} /\ tickPos = 4)
    /\ (tickPos = 4 /\ RejectedResult(tickResult, tickPrev)) =>
           (tickCb = 0 /\ FoundAttempts = {Len(attempts)})

C27_Witness ==
    /\ tickPos = 4
    /\ attempts = <<[approach |-> "raw", found |-> TRUE]>>
    /\ tickResult = [text |-> EanBad, format |-> "EAN_13"]
    /\ tickPrev = <<>>
    /\ scanCallback # 0
    /\ tickCb = 0

\* processResult(null) changes nothing, whatever lastResult and scanCallback
NullResultIgnored ==
    \A last \in {<<>>, Short, EanX}, cb \in {0, 1} :
        ProcessResult(NoResult, last, cb) = [lastResult |-> last, calls |-> <<>>]

\* C28: a result with a non-empty text that is neither of format EAN_13 nor
\* 13 characters long is accepted exactly when its text differs from
\* lastResult, with no check-digit test: lastResult becomes the text and a
\* registered callback is invoked once; a null result or one with an empty
\* text changes nothing and invokes nothing.
C28_OtherFormatsNotValidated ==
    /\ (tickPos = 4 /\ tickResult.text # <<>> /\ tickResult.format # "EAN_13"
            /\ Len(tickResult.text) # 13) =>
           IF tickResult.text # tickPrev
           THEN /\ lastResult = tickResult.text
                /\ tickCb = IF scanCallback = 0 THEN 0 ELSE 1
                /\ scanCallback # 0 => lastCb = tickResult.text
           ELSE lastResult = tickPrev /\ tickCb = 0 /\ lastCb = tickPrevCb
    /\ (tickPos = 4 /\ tickResult.text = <<>>) =>
           (lastResult = tickPrev /\ tickCb = 0 /\ lastCb = tickPrevCb)
    /\ NullResultIgnored

C28_Witness ==
    /\ tickPos = 4
    /\ tickResult = [text |-> Short, format |-> "CODE_128"]
    /\ tickPrev = EanX
    /\ lastResult = Short
    /\ lastCb = Short
    /\ tickCb = 1

\* a tick decoded a result whose text is empty
EmptyTextIgnored ==
    /\ tickPos = 4
    /\ tickResult = [text |-> <<>>, format |-> "CODE_128"]
    /\ tickPrev = EanX
    /\ lastResult = EanX

\* C29: no two lines of the invoice carry the same barcode.
C29_NoDuplicateLines ==
    \A i, j \in 1..Len(invoiceItems) :
        invoiceItems[i].barcode = invoiceItems[j].barcode => i = j

\* every line's total is its quantity times its price
TotalsConsistent ==
    \A i \in 1..Len(invoiceItems) :
        invoiceItems[i].total = invoiceItems[i].quantity * invoiceItems[i].price

\* a string of 13 ASCII digits
IsDigits13(v) ==
    v.type = "string" /\ Len(v.chars) = EanLength /\ AllDigits(v.chars)

\* the 13th digits validateEan13 accepts after the first 12 digits of chars
AcceptedCheckDigits(chars) ==
    {d \in 0..9 : validateEan13(Str([chars EXCEPT ![13] = d]))}

\* the strings that differ from chars in the digit of one position
SingleDigitErrors(chars) ==
    {[chars EXCEPT ![p] = d] : p \in 1..13, d \in 0..9} \ {chars}

\* C30: for the first 12 digits of any 13-digit string exactly one 13th
\* digit makes validateEan13 true; no string obtained from a valid code by
\* changing one digit is valid, be it the input validateEan13 was called on
\* or any other.
C30_CheckDigitDetectsSingleErrors ==
    (eanOut # "unset" /\ IsDigits13(eanIn)) =>
        /\ Cardinality(AcceptedCheckDigits(eanIn.chars)) = 1
        /\ eanOut = "true" <=> eanIn.chars[13] \in AcceptedCheckDigits(eanIn.chars)
        /\ eanOut = "true" =>
               \A e \in SingleDigitErrors(eanIn.chars) : ~validateEan13(Str(e))
        /\ (validateEan13(eanBase) /\ eanIn.chars \in SingleDigitErrors(eanBase.chars))
               => eanOut = "false"

C30_Witness ==
    /\ eanBase = Str(EanX)
    /\ eanEdits = 1
    /\ eanIn = Str(<<4,0,0,6,8,8,1,3,3,3,9,3,1>>)
    /\ eanOut = "false"

====
